---- MODULE Spec2Model ----
(***************************************************************************)
(* Germany Tourist Places API (src/main.py): the request handlers of the   *)
(* FastAPI application over the "place" collection of a document store.    *)
(*                                                                         *)
(* A string is a sequence of one-character strings, so that the regular    *)
(* expressions the listing handler builds can be evaluated.  An optional   *)
(* value is None (absent) or Some(v).  Non-ASCII text of the source is     *)
(* spelled in ASCII: the character u-umlaut is the token "u-umlaut", the   *)
(* status icons are "[check]", "[cross]" and "[warn]".                     *)
(***************************************************************************)
EXTENDS Integers, Sequences, FiniteSets, TLC

VARIABLES
    envUrl,     \* DATABASE_URL is set in the environment
    envName,    \* DATABASE_NAME is set in the environment
    db,         \* the persistence handle imported from database: NoDb or Handle
    place,      \* the documents of collection "place"
    created,    \* POST /places requests handled so far
    pc,         \* position of each POST /places/seed request
    existing,   \* local `existing` of each seed request
    idx,        \* 1-based position of each seed request in `for doc in sample`
    ids,        \* local `ids` of each seed request
    seedResp,   \* response of each seed request
    req,        \* the single-step request (create, list, test) being answered
    resp        \* its response, until it is delivered to the client

vars == <<envUrl, envName, db, place, created, pc, existing, idx, ids, seedResp, req, resp>>

(***************************************************************************)
(* Bounds of the model.                                                    *)
(***************************************************************************)
MaxCreated == 2

SeedReqs == {"s1", "s2"}

(***************************************************************************)
(* Optional values and strings.                                            *)
(***************************************************************************)
None == << >>

Some(v) == << v >>

Get(o) == o[1]

EmptyStr == << >>

UpperChars ==
    << "A","B","C","D","E","F","G","H","I","J","K","L","M",
       "N","O","P","Q","R","S","T","U","V","W","X","Y","Z" >>

LowerChars ==
    << "a","b","c","d","e","f","g","h","i","j","k","l","m",
       "n","o","p","q","r","s","t","u","v","w","x","y","z" >>

\* The case folding of the "i" option of $regex.
Lower(c) ==
    IF \E k \in 1..Len(UpperChars) : UpperChars[k] = c
    THEN LowerChars[CHOOSE k \in 1..Len(UpperChars) : UpperChars[k] = c]
    ELSE c

(***************************************************************************)
(* The $regex operator with option "i", over patterns made of ordinary     *)
(* characters and of the metacharacters "^", "$" and ".".  MatchFrom says  *)
(* that pattern p from position i on matches s starting at position j.     *)
(* Strings of the model hold no newline, so "$" matches at the end of s    *)
(* only and "." matches every character.                                   *)
(***************************************************************************)
RECURSIVE MatchFrom(_, _, _, _)
MatchFrom(p, i, s, j) ==
    IF i > Len(p) THEN TRUE
    ELSE IF p[i] = "^" THEN j = 1 /\ MatchFrom(p, i + 1, s, j)
    ELSE IF p[i] = "$" THEN j = Len(s) + 1 /\ MatchFrom(p, i + 1, s, j)
    ELSE IF p[i] = "." THEN j <= Len(s) /\ MatchFrom(p, i + 1, s, j + 1)
    ELSE j <= Len(s) /\ Lower(s[j]) = Lower(p[i]) /\ MatchFrom(p, i + 1, s, j + 1)

RegexSearch(p, s) == \E j \in 1..(Len(s) + 1) : MatchFrom(p, 1, s, j)

(***************************************************************************)
(* The ten literal sample records of seed_places.                          *)
(***************************************************************************)
sample ==
  <<
  [ name |-> <<"B","r","a","n","d","e","n","b","u","r","g"," ","G","a","t","e">>,
    city |-> Some(<<"B","e","r","l","i","n">>),
    state |-> Some(<<"B","e","r","l","i","n">>),
    category |-> Some(<<"l","a","n","d","m","a","r","k">>),
    description |-> Some("18th-century neoclassical monument and iconic symbol of Berlin."),
    tags |-> Some(<<<<"h","i","s","t","o","r","y">>, <<"a","r","c","h","i","t","e","c","t","u","r","e">>, <<"c","i","t","y">>>>),
    latitude |-> Some("52.516275"),
    longitude |-> Some("13.377704"),
    website |-> Some("https://www.visitberlin.de/en/brandenburg-gate") ],
  [ name |-> <<"N","e","u","s","c","h","w","a","n","s","t","e","i","n"," ","C","a","s","t","l","e">>,
    city |-> Some(<<"S","c","h","w","a","n","g","a","u">>),
    state |-> Some(<<"B","a","v","a","r","i","a">>),
    category |-> Some(<<"c","a","s","t","l","e">>),
    description |-> Some("Fairy-tale 19th-century Romanesque Revival castle commissioned by King Ludwig II."),
    tags |-> Some(<<<<"c","a","s","t","l","e">>, <<"m","o","u","n","t","a","i","n","s">>, <<"r","o","m","a","n","t","i","c"," ","r","o","a","d">>>>),
    latitude |-> Some("47.5576"),
    longitude |-> Some("10.7498"),
    website |-> Some("https://www.neuschwanstein.de/englisch/tourist/index.htm") ],
  [ name |-> <<"C","o","l","o","g","n","e"," ","C","a","t","h","e","d","r","a","l">>,
    city |-> Some(<<"C","o","l","o","g","n","e">>),
    state |-> Some(<<"N","o","r","t","h"," ","R","h","i","n","e","-","W","e","s","t","p","h","a","l","i","a">>),
    category |-> Some(<<"c","a","t","h","e","d","r","a","l">>),
    description |-> Some("UNESCO-listed Gothic cathedral with twin spires and a rich history."),
    tags |-> Some(<<<<"u","n","e","s","c","o">>, <<"g","o","t","h","i","c">>, <<"c","h","u","r","c","h">>>>),
    latitude |-> Some("50.9413"),
    longitude |-> Some("6.9583"),
    website |-> Some("https://www.koelner-dom.de/") ],
  [ name |-> <<"M","i","n","i","a","t","u","r"," ","W","u","n","d","e","r","l","a","n","d">>,
    city |-> Some(<<"H","a","m","b","u","r","g">>),
    state |-> Some(<<"H","a","m","b","u","r","g">>),
    category |-> Some(<<"m","u","s","e","u","m">>),
    description |-> Some("World's largest model railway exhibition with intricate miniature worlds."),
    tags |-> Some(<<<<"m","u","s","e","u","m">>, <<"f","a","m","i","l","y">>, <<"m","o","d","e","l">>>>),
    latitude |-> Some("53.5437"),
    longitude |-> Some("9.9884"),
    website |-> Some("https://www.miniatur-wunderland.com/") ],
  [ name |-> <<"B","l","a","c","k"," ","F","o","r","e","s","t">>,
    city |-> Some(<<>>),
    state |-> Some(<<"B","a","d","e","n","-","W","u-umlaut","r","t","t","e","m","b","e","r","g">>),
    category |-> Some(<<"n","a","t","u","r","e">>),
    description |-> Some("Mountainous region known for dense forests, cuckoo clocks, and scenic trails."),
    tags |-> Some(<<<<"h","i","k","i","n","g">>, <<"n","a","t","u","r","e">>, <<"s","c","e","n","i","c">>>>),
    latitude |-> Some("48.143"),
    longitude |-> Some("8.2096"),
    website |-> Some("https://www.schwarzwald-tourismus.info/") ],
  [ name |-> <<"H","e","i","d","e","l","b","e","r","g"," ","C","a","s","t","l","e">>,
    city |-> Some(<<"H","e","i","d","e","l","b","e","r","g">>),
    state |-> Some(<<"B","a","d","e","n","-","W","u-umlaut","r","t","t","e","m","b","e","r","g">>),
    category |-> Some(<<"c","a","s","t","l","e">>),
    description |-> Some("Picturesque Renaissance castle ruins overlooking the old town."),
    tags |-> Some(<<<<"c","a","s","t","l","e">>, <<"r","u","i","n","s">>, <<"r","i","v","e","r">>>>),
    latitude |-> Some("49.4106"),
    longitude |-> Some("8.7153"),
    website |-> Some("https://www.schloss-heidelberg.de/") ],
  [ name |-> <<"Z","u","g","s","p","i","t","z","e">>,
    city |-> Some(<<"G","a","r","m","i","s","c","h","-","P","a","r","t","e","n","k","i","r","c","h","e","n">>),
    state |-> Some(<<"B","a","v","a","r","i","a">>),
    category |-> Some(<<"m","o","u","n","t","a","i","n">>),
    description |-> Some("Germany's highest peak with panoramic views and year-round activities."),
    tags |-> Some(<<<<"a","l","p","s">>, <<"s","k","i","i","n","g">>, <<"v","i","e","w","s">>>>),
    latitude |-> Some("47.421"),
    longitude |-> Some("10.984"),
    website |-> Some("https://zugspitze.de/") ],
  [ name |-> <<"M","u","s","e","u","m"," ","I","s","l","a","n","d">>,
    city |-> Some(<<"B","e","r","l","i","n">>),
    state |-> Some(<<"B","e","r","l","i","n">>),
    category |-> Some(<<"m","u","s","e","u","m">>),
    description |-> Some("UNESCO ensemble of five world-renowned museums on the Spree."),
    tags |-> Some(<<<<"u","n","e","s","c","o">>, <<"a","r","t">>, <<"h","i","s","t","o","r","y">>>>),
    latitude |-> Some("52.5211"),
    longitude |-> Some("13.3969"),
    website |-> Some("https://www.smb.museum/en/museums-institutions/museum-island-berlin/home/") ],
  [ name |-> <<"S","a","n","s","s","o","u","c","i"," ","P","a","l","a","c","e">>,
    city |-> Some(<<"P","o","t","s","d","a","m">>),
    state |-> Some(<<"B","r","a","n","d","e","n","b","u","r","g">>),
    category |-> Some(<<"p","a","l","a","c","e">>),
    description |-> Some("Rococo summer palace of Frederick the Great with terraced gardens."),
    tags |-> Some(<<<<"p","a","l","a","c","e">>, <<"g","a","r","d","e","n","s">>, <<"r","o","c","o","c","o">>>>),
    latitude |-> Some("52.4036"),
    longitude |-> Some("13.0397"),
    website |-> Some("https://www.spsg.de/") ],
  [ name |-> <<"S","a","x","o","n"," ","S","w","i","t","z","e","r","l","a","n","d"," ","N","a","t","i","o","n","a","l"," ","P","a","r","k">>,
    city |-> Some(<<>>),
    state |-> Some(<<"S","a","x","o","n","y">>),
    category |-> Some(<<"n","a","t","u","r","e">>),
    description |-> Some("Dramatic sandstone formations and hiking trails along the Elbe."),
    tags |-> Some(<<<<"n","a","t","i","o","n","a","l"," ","p","a","r","k">>, <<"h","i","k","i","n","g">>, <<"s","a","n","d","s","t","o","n","e">>>>),
    latitude |-> Some("50.9289"),
    longitude |-> Some("14.2366"),
    website |-> Some("https://www.saechsische-schweiz.de/en/") ]
  >>

(***************************************************************************)
(* Program constants.                                                      *)
(***************************************************************************)
LimitMin == 1

LimitMax == 500

DefaultLimit == 100

ErrLimit == 50

CollectionsShown == 10

NoDb == "None"

Handle == "Handle"

NoReq == [kind |-> "none"]

NoResp == [status |-> 0]

(***************************************************************************)
(* Document accessors (module database) and the storage layer.  An         *)
(* ObjectId is modelled by the pair of the request that inserts and the    *)
(* number of the insert within it; str() of it is its hexadecimal text.    *)
(***************************************************************************)
NewId(origin, n) == << origin, n >>

StrOid(oid) == [hex |-> oid]

\* create_document: the stored document is the data plus the generated _id.
Stored(data, oid) == [_id |-> oid] @@ data

CountDocumentsMutant(coll) == Cardinality(coll) - 1

\* db["place"].count_documents({})
CountDocuments(coll) == Cardinality(coll)

\* db.list_collection_names(): a collection exists once it holds a document.
ListCollectionNames(coll) == IF coll = {} THEN << >> ELSE << "place" >>

\* The response of an unhandled exception of a storage call.
ServerError(calls) ==
    [status |-> 500, detail |-> "Internal Server Error", calls |-> calls]

\* raise HTTPException(status_code=500, detail="Database not configured")
NotConfigured(calls) ==
    [status |-> 500, detail |-> "Database not configured", calls |-> calls]

\* The framework's rejection of a parameter that fails its declared validation.
ValidationError == [status |-> 422, detail |-> "Unprocessable Entity", calls |-> 0]

DbMissingMutant(handle) == FALSE

\* if db is None
DbMissing(handle) == handle = NoDb

(***************************************************************************)
(* POST /places                                                            *)
(***************************************************************************)
CreatePlace(p, ok) ==
    /\ resp = NoResp
    /\ created < MaxCreated
    /\ created' = created + 1
    /\ req' = [kind |-> "create", place |-> p]
    /\ IF DbMissing(db)
       THEN /\ resp' = NotConfigured(0)
            /\ place' = place
       ELSE IF ~ok
       THEN /\ resp' = ServerError(1)
            /\ place' = place
       ELSE LET oid == NewId("c", created + 1) IN
            /\ place' = place \cup {Stored(p, oid)}
            /\ resp' = [status |-> 200, calls |-> 1, id |-> StrOid(oid)]
    /\ UNCHANGED <<envUrl, envName, db, pc, existing, idx, ids, seedResp>>

(***************************************************************************)
(* POST /places/seed: the count check, then one insert per step of the     *)
(* loop, then the return.  Other requests may run between the steps.       *)
(***************************************************************************)
AlreadySeededMutant(n) == n > 1

AlreadySeeded(n) == n > 0

SeedCheck(r, ok) ==
    /\ pc[r] = "idle"
    /\ IF DbMissing(db)
       THEN /\ seedResp' = [seedResp EXCEPT ![r] = NotConfigured(0)]
            /\ pc' = [pc EXCEPT ![r] = "done"]
            /\ UNCHANGED <<existing, idx, ids>>
       ELSE IF ~ok
       THEN /\ seedResp' = [seedResp EXCEPT ![r] = ServerError(1)]
            /\ pc' = [pc EXCEPT ![r] = "done"]
            /\ UNCHANGED <<existing, idx, ids>>
       ELSE LET n == CountDocuments(place) IN
            /\ existing' = [existing EXCEPT ![r] = n]
            /\ IF AlreadySeeded(n)
               THEN /\ seedResp' = [seedResp EXCEPT ![r] =
                          [status |-> 200, calls |-> 1, seeded |-> FALSE,
                           message |-> "Places already exist", count |-> n]]
                    /\ pc' = [pc EXCEPT ![r] = "done"]
                    /\ UNCHANGED <<idx, ids>>
               ELSE /\ pc' = [pc EXCEPT ![r] = "insert"]
                    /\ idx' = [idx EXCEPT ![r] = 1]
                    /\ ids' = [ids EXCEPT ![r] = << >>]
                    /\ UNCHANGED seedResp
    /\ UNCHANGED <<envUrl, envName, db, place, created, req, resp>>

LoopDoneMutant(i) == i >= Len(sample)

LoopDone(i) == i > Len(sample)

SeedInsert(r, ok) ==
    /\ pc[r] = "insert"
    /\ ~LoopDone(idx[r])
    /\ IF ok
       THEN LET oid == NewId(r, idx[r]) IN
            /\ place' = place \cup {Stored(sample[idx[r]], oid)}
            /\ ids' = [ids EXCEPT ![r] = Append(@, StrOid(oid))]
            /\ idx' = [idx EXCEPT ![r] = @ + 1]
            /\ UNCHANGED <<pc, seedResp>>
       ELSE /\ seedResp' = [seedResp EXCEPT ![r] = ServerError(idx[r] + 1)]
            /\ pc' = [pc EXCEPT ![r] = "done"]
            /\ UNCHANGED <<place, ids, idx>>
    /\ UNCHANGED <<envUrl, envName, db, created, existing, req, resp>>

SeedReturn(r) ==
    /\ pc[r] = "insert"
    /\ LoopDone(idx[r])
    /\ seedResp' = [seedResp EXCEPT ![r] =
           [status |-> 200, calls |-> idx[r], seeded |-> TRUE,
            count |-> Len(ids[r]), ids |-> ids[r]]]
    /\ pc' = [pc EXCEPT ![r] = "done"]
    /\ UNCHANGED <<envUrl, envName, db, place, created, existing, idx, ids, req, resp>>

(***************************************************************************)
(* GET /places                                                             *)
(***************************************************************************)
LimitValidMutant(n) == n >= 0 /\ n <= LimitMax

\* limit: int = Query(default=100, ge=1, le=500)
LimitValid(n) == n >= LimitMin /\ n <= LimitMax

EffectiveLimit(limit) == IF limit = None THEN DefaultLimit ELSE Get(limit)

TruthyMutant(o) == o # None

\* The truth value of an Optional[str]: None and "" are false.
Truthy(o) == o # None /\ Get(o) # EmptyStr

\* f"^{value}$"
Anchored(s) == << "^" >> \o s \o << "$" >>

BuildFilter(q, category, state, city) ==
    [or       |-> IF Truthy(q) THEN Some(Get(q)) ELSE None,
     category |-> IF Truthy(category) THEN Some(Anchored(Get(category))) ELSE None,
     state    |-> IF Truthy(state) THEN Some(Anchored(Get(state))) ELSE None,
     city     |-> IF Truthy(city) THEN Some(Anchored(Get(city))) ELSE None]

\* {field: {"$regex": p, "$options": "i"}}: a null field matches no pattern.
FieldRegex(v, p) == v # None /\ RegexSearch(p, Get(v))

\* {"tags": {"$elemMatch": {"$regex": p, "$options": "i"}}}
ElemMatch(tags, p) ==
    tags # None /\ \E k \in 1..Len(Get(tags)) : RegexSearch(p, Get(tags)[k])

OrGroup(d, p) ==
    \/ RegexSearch(p, d.name)
    \/ FieldRegex(d.city, p)
    \/ FieldRegex(d.state, p)
    \/ FieldRegex(d.category, p)
    \/ ElemMatch(d.tags, p)

Matches(d, f) ==
    /\ f.or # None => OrGroup(d, Get(f.or))
    /\ f.category # None => FieldRegex(d.category, Get(f.category))
    /\ f.state # None => FieldRegex(d.state, Get(f.state))
    /\ f.city # None => FieldRegex(d.city, Get(f.city))

\* get_documents: the possible results of the capped query.  The order of
\* the result is the storage's and is not modelled: a result is the set of
\* documents returned.
GetDocuments(coll, f, limit) ==
    LET M == {d \in coll : Matches(d, f)} IN
    IF Cardinality(M) <= limit THEN {M}
    ELSE {S \in SUBSET M : Cardinality(S) = limit}

\* d["id"] = str(d.pop("_id", ""))
CleanDoc(d) ==
    [k \in (DOMAIN d \ {"_id"}) \cup {"id"} |->
        IF k = "id" THEN StrOid(d._id) ELSE d[k]]

ListPlaces(q, category, state, city, limit, ok) ==
    /\ resp = NoResp
    /\ req' = [kind |-> "list", q |-> q, category |-> category, state |-> state,
               city |-> city, limit |-> limit]
    /\ IF ~LimitValid(EffectiveLimit(limit))
       THEN resp' = ValidationError
       ELSE IF DbMissing(db)
       THEN resp' = NotConfigured(0)
       ELSE IF ~ok
       THEN resp' = ServerError(1)
       ELSE \E docs \in GetDocuments(place, BuildFilter(q, category, state, city),
                                     EffectiveLimit(limit)) :
                LET cleaned == {CleanDoc(d) : d \in docs} IN
                resp' = [status |-> 200, calls |-> 1, items |-> cleaned,
                         count |-> Cardinality(cleaned)]
    /\ UNCHANGED <<envUrl, envName, db, place, created, pc, existing, idx, ids, seedResp>>

(***************************************************************************)
(* GET /test                                                               *)
(***************************************************************************)
Take(s, n) == SubSeq(s, 1, IF Len(s) < n THEN Len(s) ELSE n)

InitialReport ==
    [backend           |-> "[check] Running",
     database          |-> << "[cross] Not Available", EmptyStr >>,
     database_url      |-> None,
     database_name     |-> None,
     connection_status |-> "Not Connected",
     collections       |-> << >>]

UninitializedMutant == << "[check] Connected & Working", EmptyStr >>

\* response["database"] of the branch taken when db is None
Uninitialized == << "[warn]  Available but not initialized", EmptyStr >>

\* The body of the try block: ok says whether list_collection_names returns,
\* err is the text of the exception it raises otherwise.  Nothing outside
\* the inner try can raise, so the outer except clause is never entered.
Probe(r, ok, err) ==
    IF db # NoDb
    THEN LET r1 == [r EXCEPT !.database = << "[check] Available", EmptyStr >>,
                             !.database_url = Some("[check] Configured"),
                             !.database_name = Some("name"),
                             !.connection_status = "Connected"]
         IN IF ok
            THEN [r1 EXCEPT !.collections = Take(ListCollectionNames(place),
                                                 CollectionsShown),
                            !.database = << "[check] Connected & Working", EmptyStr >>]
            ELSE [r1 EXCEPT !.database = << "[warn]  Connected but Error: ",
                                            Take(err, ErrLimit) >>]
    ELSE [r EXCEPT !.database = Uninitialized]

EnvReport(r) ==
    [r EXCEPT !.database_url = Some(IF envUrl THEN "[check] Set" ELSE "[cross] Not Set"),
              !.database_name = Some(IF envName THEN "[check] Set" ELSE "[cross] Not Set")]

TestDatabase(ok, err) ==
    /\ resp = NoResp
    /\ req' = [kind |-> "test"]
    /\ resp' = [status |-> 200, calls |-> IF db # NoDb THEN 1 ELSE 0,
                report |-> EnvReport(Probe(InitialReport, ok, err))]
    /\ UNCHANGED <<envUrl, envName, db, place, created, pc, existing, idx, ids, seedResp>>

\* The response of a single-step request reaches the client.  The handlers
\* of POST /places, GET /places and GET /test make at most one storage call,
\* so each is one step and they are taken one at a time; the steps of the
\* seed requests run between them.
Deliver ==
    /\ resp # NoResp
    /\ req' = NoReq
    /\ resp' = NoResp
    /\ UNCHANGED <<envUrl, envName, db, place, created, pc, existing, idx, ids, seedResp>>

(***************************************************************************)
(* Inputs of the requests.                                                 *)
(***************************************************************************)
Place(name, city, state, category, tags) ==
    [name |-> name, city |-> city, state |-> state, description |-> None,
     category |-> category, tags |-> tags, latitude |-> None,
     longitude |-> None, website |-> None]

Berlin == << "B","e","r","l","i","n" >>

Castle == << "c","a","s","t","l","e" >>

\* Request bodies and queries of the specifications with seed requests.
SeedPlaces ==
    { Place(<< "Z","o","o" >>, Some(Berlin), Some(Berlin),
            Some(<< "z","o","o" >>), Some(<< << "f","a","m","i","l","y" >> >>)) }

SeedQueries ==
    { [q |-> None, category |-> None, state |-> None, city |-> None, limit |-> None],
      [q |-> Some(Castle), category |-> None, state |-> None, city |-> None, limit |-> None],
      [q |-> None, category |-> None, state |-> None, city |-> Some(Berlin), limit |-> Some(LimitMax)],
      [q |-> None, category |-> None, state |-> None, city |-> None, limit |-> Some(LimitMin - 1)],
      [q |-> None, category |-> Some(Castle), state |-> None, city |-> None, limit |-> Some(LimitMax + 1)] }

\* Request bodies and query parameters of the listing specification: short
\* strings over letters of both cases and the characters "." and "$".
ListPlacesInputs ==
    { Place(<< "a" >>, None, None, None, None),
      Place(<< "A","b" >>, Some(<< "a" >>), Some(<< "b" >>), Some(<< "a","b" >>),
            Some(<< << "b" >>, << "A","a" >> >>)),
      Place(<< "a","$" >>, Some(EmptyStr), Some(<< "b" >>), Some(<< "a","b" >>), Some(<< >>)),
      Place(<< "." >>, Some(<< "A" >>), Some(EmptyStr), Some(EmptyStr), None) }

QInputs ==
    { None, Some(EmptyStr), Some(<< "a" >>), Some(<< "A" >>), Some(<< "b" >>),
      Some(<< "." >>), Some(<< "a","$" >>) }

CategoryInputs == { None, Some(EmptyStr), Some(<< "a" >>), Some(<< "a","." >>) }

StateInputs == { None, Some(EmptyStr), Some(<< "a" >>) }

CityInputs == { None, Some(EmptyStr), Some(<< "A" >>) }

LimitInputs ==
    { None, Some(LimitMin - 1), Some(LimitMin), Some(LimitMin + 1), Some(LimitMax),
      Some(LimitMax + 1) }

ErrMsgs ==
    { << "t","i","m","e","o","u","t" >>, [i \in 1..(ErrLimit + 10) |-> "x"] }

(***************************************************************************)
(* Every endpoint, with one seed request.                                  *)
(***************************************************************************)
Init ==
    /\ envUrl \in BOOLEAN
    /\ envName \in BOOLEAN
    /\ db \in (IF envUrl THEN {NoDb, Handle} ELSE {NoDb})
    /\ place = {}
    /\ created = 0
    /\ pc = [r \in SeedReqs |-> "idle"]
    /\ existing = [r \in SeedReqs |-> 0]
    /\ idx = [r \in SeedReqs |-> 0]
    /\ ids = [r \in SeedReqs |-> << >>]
    /\ seedResp = [r \in SeedReqs |-> NoResp]
    /\ req = NoReq
    /\ resp = NoResp

Next ==
    \/ \E p \in SeedPlaces, ok \in BOOLEAN : CreatePlace(p, ok)
    \/ \E ok \in BOOLEAN : SeedCheck("s1", ok)
    \/ \E ok \in BOOLEAN : SeedInsert("s1", ok)
    \/ SeedReturn("s1")
    \/ \E x \in SeedQueries, ok \in BOOLEAN :
           ListPlaces(x.q, x.category, x.state, x.city, x.limit, ok)
    \/ \E ok \in BOOLEAN, err \in ErrMsgs : TestDatabase(ok, err)
    \/ Deliver

Spec == Init /\ [][Next]_vars

(***************************************************************************)
(* Concurrent seed requests, with POST /places requests among them.        *)
(***************************************************************************)
NextSeed ==
    \/ \E p \in SeedPlaces, ok \in BOOLEAN : CreatePlace(p, ok)
    \/ \E r \in SeedReqs, ok \in BOOLEAN : SeedCheck(r, ok)
    \/ \E r \in SeedReqs, ok \in BOOLEAN : SeedInsert(r, ok)
    \/ \E r \in SeedReqs : SeedReturn(r)
    \/ Deliver

SpecSeed == Init /\ [][NextSeed]_vars

(***************************************************************************)
(* The listing endpoint over documents created by POST /places, with       *)
(* storage calls that succeed.                                             *)
(***************************************************************************)
NextList ==
    \/ \E p \in ListPlacesInputs : CreatePlace(p, TRUE)
    \/ \E q \in QInputs, category \in CategoryInputs, state \in StateInputs,
          city \in CityInputs, limit \in LimitInputs :
           ListPlaces(q, category, state, city, limit, TRUE)
    \/ Deliver

SpecList == Init /\ [][NextList]_vars

(***************************************************************************)
(* Properties.                                                             *)
(***************************************************************************)
\* The documents a seed request has inserted, and a document without its _id.
OwnDocs(r) == {d \in place : d._id[1] = r}

Strip(d) == [k \in DOMAIN d \ {"_id"} |-> d[k]]

Copies(k) == Cardinality({d \in place : Strip(d) = sample[k]})

\* The requests that passed the count check and entered the insert loop.
Inserters == {r \in SeedReqs : idx[r] >= 1}

SeededTrue(r) ==
    pc[r] = "done" /\ seedResp[r].status = 200 /\ seedResp[r].seeded

SeededFalse(r) ==
    pc[r] = "done" /\ seedResp[r].status = 200 /\ ~seedResp[r].seeded

\* C1: a seed request whose count check runs (and returns) while the
\* collection holds at least one document answers seeded=false with the
\* number of stored documents and leaves the collection as it was.
C1_SeedNoOpWhenNonEmpty ==
    [][\A r \in SeedReqs :
          (/\ pc[r] = "idle"
           /\ pc'[r] # "idle"
           /\ db # NoDb
           /\ place # {}
           /\ seedResp'[r].status # 500)
          => /\ pc'[r] = "done"
             /\ seedResp'[r].status = 200
             /\ seedResp'[r].seeded = FALSE
             /\ seedResp'[r].count = Cardinality(place)
             /\ place' = place]_vars

C1_Witness == \E r \in SeedReqs : SeededFalse(r) /\ seedResp[r].count >= 1

\* C2: a seed request that found the collection empty and whose inserts all
\* succeeded has inserted exactly the 10 sample records, once each, and
\* answers seeded=true, count=10 and 10 pairwise distinct ids, the ids of the
\* documents it inserted; when it ran alone these are the whole collection.
C2_SeedInsertsTenSamples ==
    \A r \in SeedReqs :
       SeededTrue(r) =>
          /\ seedResp[r].count = 10
          /\ Len(seedResp[r].ids) = 10
          /\ \A j, k \in 1..Len(seedResp[r].ids) :
                j # k => seedResp[r].ids[j] # seedResp[r].ids[k]
          /\ {seedResp[r].ids[k] : k \in 1..Len(seedResp[r].ids)}
                = {StrOid(d._id) : d \in OwnDocs(r)}
          /\ Cardinality(OwnDocs(r)) = 10
          /\ {Strip(d) : d \in OwnDocs(r)} = {sample[k] : k \in 1..Len(sample)}
          /\ Cardinality({sample[k] : k \in 1..Len(sample)}) = 10
          /\ ((created = 0 /\ \A o \in SeedReqs \ {r} : pc[o] = "idle")
                => place = OwnDocs(r))

C2_Witness ==
    \E r \in SeedReqs :
       SeededTrue(r) /\ created = 0 /\ \A o \in SeedReqs \ {r} : pc[o] = "idle"

\* C3 as stated: whatever the interleaving, at most one seed request enters
\* the insert loop and the collection holds at most one copy of each sample.
C3_Original ==
    /\ Cardinality(Inserters) <= 1
    /\ \A k \in 1..Len(sample) : Copies(k) <= 1

\* C3 amended: a seed request enters the insert loop only if its own count
\* check found the collection empty, a request that answers seeded=false
\* found documents and inserts nothing, and the collection holds at most one
\* copy of each sample record per request that entered the loop.
C3_SeedOncePerEmptyCheck ==
    /\ \A r \in Inserters : existing[r] = 0
    /\ \A r \in SeedReqs : SeededFalse(r) => existing[r] > 0 /\ OwnDocs(r) = {}
    /\ \A r \in SeedReqs \ Inserters : OwnDocs(r) = {}
    /\ \A k \in 1..Len(sample) : Copies(k) <= Cardinality(Inserters)

C3_Witness == Cardinality(Inserters) = 2 /\ Copies(1) = 2

\* C9 as stated: a seed request that is over has inserted none of the sample
\* records or all 10 of them.
C9_SeedAllOrNothing ==
    \A r \in SeedReqs : pc[r] = "done" => Cardinality(OwnDocs(r)) \in {0, 10}

\* C4: with the handle unset, POST /places, POST /places/seed and (for a
\* limit the framework accepts) GET /places answer status 500 with detail
\* "Database not configured" after no storage call, and nothing is stored.
C4_NoDbIsError500 ==
    db = NoDb =>
       /\ place = {}
       /\ (resp # NoResp /\ req.kind = "create")
             => /\ resp.status = 500
                /\ resp.detail = "Database not configured"
                /\ resp.calls = 0
       /\ (/\ resp # NoResp
           /\ req.kind = "list"
           /\ (req.limit = None \/ (Get(req.limit) >= 1 /\ Get(req.limit) <= 500)))
             => /\ resp.status = 500
                /\ resp.detail = "Database not configured"
                /\ resp.calls = 0
       /\ \A r \in SeedReqs :
             pc[r] # "idle"
                => /\ pc[r] = "done"
                   /\ seedResp[r].status = 500
                   /\ seedResp[r].detail = "Database not configured"
                   /\ seedResp[r].calls = 0

C4_Witness ==
    /\ db = NoDb
    /\ created >= 1
    /\ pc["s1"] = "done"
    /\ req.kind = "list"
    /\ resp.status = 500

\* C8 as stated: GET /test answers with a report in every state of the
\* database, and with no database configured the report says the backend is
\* running and the database is not available.
C8_Original ==
    (resp # NoResp /\ req.kind = "test")
       => /\ resp.status = 200
          /\ db = NoDb
                => /\ resp.report.backend = "[check] Running"
                   /\ resp.report.database = << "[cross] Not Available", EmptyStr >>

C8_ReportNeverRaises ==
    (resp # NoResp /\ req.kind = "test")
       => /\ resp.status = 200
          /\ resp.report.backend = "[check] Running"
          /\ Len(resp.report.database[2]) <= 50
          /\ resp.report.database_url \in {Some("[check] Set"), Some("[cross] Not Set")}
          /\ db = NoDb
                => /\ resp.report.database
                        = << "[warn]  Available but not initialized", EmptyStr >>
                   /\ resp.report.connection_status = "Not Connected"
                   /\ resp.report.collections = << >>

\* C8 amended: GET /test answers status 200 with a report whether the handle
\* is unset, set and working, or set and failing on the listing of the
\* collections (the error text cut to 50 characters); it leaves the
\* collection as it was; and with no database configured the report says
\* the backend is running, the database "Available but not initialized",
\* the connection "Not Connected", and it lists no collection.
C8_TestIsObservational ==
    /\ []C8_ReportNeverRaises
    /\ [][(resp = NoResp /\ resp' # NoResp /\ req'.kind = "test")
             => place' = place]_vars

C8_Witness ==
    /\ resp # NoResp
    /\ req.kind = "test"
    /\ db = NoDb
    /\ resp.report.database[1] = "[warn]  Available but not initialized"

\* The successful answer of GET /places that is in flight.
Listed == resp # NoResp /\ req.kind = "list" /\ resp.status = 200

\* Case-insensitive equality and containment of literal strings.
EqCI(a, b) == Len(a) = Len(b) /\ \A k \in 1..Len(a) : Lower(a[k]) = Lower(b[k])

SubCI(a, s) ==
    \E j \in 0..(Len(s) - Len(a)) : \A k \in 1..Len(a) : Lower(s[j + k]) = Lower(a[k])

\* C5: a GET /places whose limit (100 when omitted) lies in 1..500 is not
\* rejected and returns at most limit items; one whose limit lies outside is
\* rejected with a validation error after no storage call.
C5_LimitCapsAndRejects ==
    (resp # NoResp /\ req.kind = "list") =>
       LET n == IF req.limit = None THEN 100 ELSE Get(req.limit) IN
       IF n >= 1 /\ n <= 500
       THEN /\ resp.status # 422
            /\ resp.status = 200
                  => Cardinality(resp.items) <= n /\ resp.count <= n
       ELSE resp.status = 422 /\ resp.calls = 0

C5_Witness ==
    /\ Listed
    /\ req.limit = Some(1)
    /\ req.q = None /\ req.category = None /\ req.state = None /\ req.city = None
    /\ Cardinality(place) = 2
    /\ resp.count = 1

\* The eligibility of a document as C6 states it.
LiteralFilter(v, o) == o # None => (v # None /\ EqCI(Get(v), Get(o)))

LiteralSearch(d, o) ==
    o # None =>
       \/ SubCI(Get(o), d.name)
       \/ d.city # None /\ SubCI(Get(o), Get(d.city))
       \/ d.state # None /\ SubCI(Get(o), Get(d.state))
       \/ d.category # None /\ SubCI(Get(o), Get(d.category))
       \/ d.tags # None /\ \E k \in 1..Len(Get(d.tags)) : SubCI(Get(o), Get(d.tags)[k])

Eligible(d, r) ==
    /\ LiteralSearch(d, r.q)
    /\ LiteralFilter(d.category, r.category)
    /\ LiteralFilter(d.state, r.state)
    /\ LiteralFilter(d.city, r.city)

\* C6 as stated, for requests whose category, state and city are absent or
\* not empty: the items returned are eligible documents, and all of them
\* when the limit does not cut the result, where a document is eligible iff
\* q is a case-insensitive literal substring of one of its searched fields
\* and each present filter equals its field in full, ignoring case.
C6_FilterIsLiteral ==
    (/\ Listed
     /\ req.category # Some(EmptyStr)
     /\ req.state # Some(EmptyStr)
     /\ req.city # Some(EmptyStr))
       => LET eligible == {CleanDoc(d) : d \in {e \in place : Eligible(e, req)}} IN
          /\ resp.items \subseteq eligible
          /\ resp.count < (IF req.limit = None THEN 100 ELSE Get(req.limit))
                => resp.items = eligible

\* C7 as stated: a GET /places?q=<name> with no other parameter returns, for
\* every stored document created with that name, the item made of the id
\* POST /places returned for it and of the submitted fields.
C7_RoundTrip ==
    (/\ Listed
     /\ req.q # None
     /\ req.category = None /\ req.state = None /\ req.city = None
     /\ req.limit = None)
       => \A d \in place :
             d.name = Get(req.q) => ([id |-> StrOid(d._id)] @@ Strip(d)) \in resp.items

\* C10 as stated: a category, state or city supplied as the empty string
\* lets through only documents whose field is the empty string.
C10_Original ==
    Listed =>
       \A x \in resp.items :
          /\ req.category = Some(EmptyStr) => x.category = Some(EmptyStr)
          /\ req.state = Some(EmptyStr) => x.state = Some(EmptyStr)
          /\ req.city = Some(EmptyStr) => x.city = Some(EmptyStr)

Omitted(o) == IF o = Some(EmptyStr) THEN None ELSE o

\* C10 amended: a category, state or city supplied as the empty string is
\* treated as an omitted one: the answer is an answer of the same request
\* without that parameter, so documents whose field is not empty come back.
C10_EmptyFilterIsAbsent ==
    Listed =>
       \E docs \in GetDocuments(place,
                                [or       |-> IF req.q \in {None, Some(EmptyStr)}
                                              THEN None ELSE req.q,
                                 category |-> IF Omitted(req.category) = None THEN None
                                              ELSE Some(Anchored(Get(req.category))),
                                 state    |-> IF Omitted(req.state) = None THEN None
                                              ELSE Some(Anchored(Get(req.state))),
                                 city     |-> IF Omitted(req.city) = None THEN None
                                              ELSE Some(Anchored(Get(req.city)))],
                                EffectiveLimit(req.limit)) :
          resp.items = {CleanDoc(d) : d \in docs}

C10_Witness ==
    /\ Listed
    /\ req.city = Some(EmptyStr)
    /\ \E x \in resp.items : x.city # Some(EmptyStr)

====
